---- MODULE Spec2Model ----
(***************************************************************************)
(* A model of tikzmagic.py: the TikzRunner pipeline (template, pdflatex,   *)
(* format conversion, image read, save copy, scratch-directory cleanup,    *)
(* display publishing), the scoped working-directory change and the        *)
(* scratch-directory context manager.                                       *)
(*                                                                         *)
(* Spec      one request at a time (the single-threaded magic)             *)
(* SpecConc  two requests interleaved in one process                       *)
(* SpecTpl   compile_tikz_template applied to bounded preamble strings     *)
(***************************************************************************)
EXTENDS Integers, Sequences, FiniteSets, TLC

\* Longest preamble string enumerated by SpecTpl.
MaxPreambleLen == 4

\* The requests (TikzRunner instances) that may exist in the process.
Requests == {"req1", "req2"}

\* Python's None.
None == "None"

\* The working directory of the process before any request runs.
OrigDir == "orig"

\* The values of --format that are exercised.
Formats == {"png", "svg", "jpg", "jpeg"}

\* The fixed file names used inside a scratch directory.
FileNames == {"tikz.tex", "tikz.log", "tikz.pdf", "tikz.png", "tikz.svg", "tikz.jpg"}

\* Characters of a preamble string: the two quote characters and a letter.
Chars == {"'", "\"", "a"}

\* The characters removed by self.preamble.strip("'\"").
QuoteChars == {"'", "\""}

VARIABLES
    cwd,            \* process-global working directory (os.getcwd / os.chdir)
    exists,         \* scratch directories present on the filesystem
    fs,             \* fs[d]: names of the files inside scratch directory d
    pc,             \* pc[r]: position of request r in run()
    plot_format,    \* self.plot_format
    img_save_path,  \* self.img_save_path: None or "path"
    dry_run,        \* self.dry_run
    plot_dir,       \* plot_dir bound by "with make_tempdir() as plot_dir"
    stage,          \* which caller is inside working_directory: latex / convert
    prev_cwd,       \* prev_cwd saved by working_directory
    tool_cwd,       \* working directory inherited by the running subprocess
    latex_ok,       \* outcome of the pdflatex call
    conv_ok,        \* outcome of the pdf2svg / convert call
    latex_log,      \* value returned by run_latex
    display_data,   \* display_data list of generate_plots
    raised,         \* an exception is propagating out of run()
    outputs,        \* publish_display_data calls made for the request
    saved,          \* the save copy was made
    printed,        \* the template was printed (dry run)
    tools,          \* external tools launched for the request
    stderr,         \* messages written to sys.stderr
    preamble,       \* self.preamble (SpecTpl)
    tex             \* lines produced by compile_tikz_template (SpecTpl)

vars == <<cwd, exists, fs, pc, plot_format, img_save_path, dry_run, plot_dir,
          stage, prev_cwd, tool_cwd, latex_ok, conv_ok, latex_log,
          display_data, raised, outputs, saved, printed, tools, stderr,
          preamble, tex>>

\* Variables of the template function, untouched by the pipeline.
tplVars == <<preamble, tex>>

\* Per-request variables other than pc.
reqConfig == <<plot_format, img_save_path, dry_run>>

----
\* get_mime_type: the _MIME_TYPES lookup with the image/<format> fallback.
get_mime_type(img_format) ==
    CASE img_format = "png" -> "image/png"
      [] img_format = "svg" -> "image/svg+xml"
      [] img_format = "jpg" -> "image/jpeg"
      [] img_format = "jpeg" -> "image/jpeg"
      [] OTHER -> "image/other"

\* The name mkdtemp returns for request r: unique per request.
mkdtemp(r) == r

\* The file the read step and the save copy look for: "%s/tikz.%s".
image_filename(r) == IF plot_format[r] = "jpeg" THEN "tikz.jpeg"
                     ELSE IF plot_format[r] = "jpg" THEN "tikz.jpg"
                     ELSE IF plot_format[r] = "svg" THEN "tikz.svg"
                     ELSE "tikz.png"

\* The tool a subprocess.call of request r launches.
Tool(r) == IF stage[r] = "latex" THEN "pdflatex"
           ELSE IF plot_format[r] = "svg" THEN "pdf2svg"
           ELSE "convert"

\* The file a tool reads from its working directory.
ToolInput(t) == CASE t = "pdflatex" -> "tikz.tex"
                  [] t = "pdf2svg" -> "tikz.pdf"
                  [] t = "convert" -> "tikz.png"

\* Files of directory d, empty when d is not an existing scratch directory.
FilesIn(d) == IF d \in exists THEN fs[d] ELSE {}

\* os.getcwd() and os.chdir(d) fail when the directory is gone.
DirExists(d) == d = OrigDir \/ d \in exists

\* str.lstrip(chars) for chars = QuoteChars.
RECURSIVE lstrip(_)
lstrip(s) == IF s # <<>> /\ Head(s) \in QuoteChars THEN lstrip(Tail(s)) ELSE s

\* str.rstrip(chars) for chars = QuoteChars.
RECURSIVE rstrip(_)
rstrip(s) == IF s # <<>> /\ s[Len(s)] \in QuoteChars
             THEN rstrip(SubSeq(s, 1, Len(s) - 1)) ELSE s

\* One layer of quoting removed: at most one leading and one trailing quote.
strip_one_layer(s) ==
    LET a == IF s # <<>> /\ Head(s) \in QuoteChars THEN Tail(s) ELSE s
    IN IF a # <<>> /\ a[Len(a)] \in QuoteChars
       THEN SubSeq(a, 1, Len(a) - 1) ELSE a

\* self.preamble.strip("'\""): str.strip removes every leading and every
\* trailing character that is in the given set.
strip(s) == rstrip(lstrip(s))

\* The fixed lines of the template, each a one-token line.
DocClassLine == <<"\\documentclass[convert={...},border=0pt]{standalone}">>
UseTikzLine == <<"\\usepackage{tikz}">>
UseLibraryLine == <<"\\usetikzlibrary{}">>
BeginLine == <<"\\begin{document}\\begin{tikzpicture}">>
CodeLine == <<"    code">>
EndLine == <<"\\end{tikzpicture}\\end{document}">>

\* compile_tikz_template for a request without packages or libraries: the
\* list of lines joined into the document; the stripped preamble is the
\* line before \begin{document}.
compile_tikz_template(p) ==
    <<DocClassLine, UseTikzLine, UseLibraryLine>> \o <<strip(p)>>
        \o <<BeginLine, CodeLine, EndLine>>

\* The preamble strings of at most n characters.
Strings(n) == UNION {[1..k -> Chars] : k \in 0..n}

InitPipeline ==
    /\ cwd = OrigDir
    /\ exists = {}
    /\ fs = [d \in Requests |-> {}]
    /\ pc = [r \in Requests |-> "idle"]
    /\ plot_format = [r \in Requests |-> "png"]
    /\ img_save_path = [r \in Requests |-> None]
    /\ dry_run = [r \in Requests |-> FALSE]
    /\ plot_dir = [r \in Requests |-> None]
    /\ stage = [r \in Requests |-> None]
    /\ prev_cwd = [r \in Requests |-> None]
    /\ tool_cwd = [r \in Requests |-> None]
    /\ latex_ok = [r \in Requests |-> None]
    /\ conv_ok = [r \in Requests |-> None]
    /\ latex_log = [r \in Requests |-> None]
    /\ display_data = [r \in Requests |-> <<>>]
    /\ raised = [r \in Requests |-> FALSE]
    /\ outputs = [r \in Requests |-> <<>>]
    /\ saved = [r \in Requests |-> FALSE]
    /\ printed = [r \in Requests |-> FALSE]
    /\ tools = [r \in Requests |-> {}]
    /\ stderr = [r \in Requests |-> {}]

Init ==
    /\ InitPipeline
    /\ preamble = <<>>
    /\ tex = <<>>
----
\* Every other request is idle: the calling thread runs one request at a time.
Alone(r) == \A o \in Requests \ {r} : pc[o] = "idle"

\* TikzRunner.__init__: a request is constructed from the parsed options,
\* drawn here from the given sets.
Construct(r, formats, savePaths, dryRuns) ==
    /\ pc[r] = "idle"
    /\ \E f \in formats, s \in savePaths, d \in dryRuns :
          /\ plot_format' = [plot_format EXCEPT ![r] = f]
          /\ img_save_path' = [img_save_path EXCEPT ![r] = s]
          /\ dry_run' = [dry_run EXCEPT ![r] = d]
    /\ pc' = [pc EXCEPT ![r] = "run"]
    /\ UNCHANGED <<cwd, exists, fs, plot_dir, stage, prev_cwd, tool_cwd,
                   latex_ok, conv_ok, latex_log, display_data, raised,
                   outputs, saved, printed, tools, stderr, tplVars>>

\* tikz(): any format, with or without --save and --dry-run.
Start(r) == Construct(r, Formats, {None, "path"}, BOOLEAN)

\* The requests of the interleaved runs: rendering requests without --save.
StartConc(r) == Construct(r, {"png", "svg"}, {None}, {FALSE})

\* run() without the dry_run test: the template is always rendered.
run_target_render(r) == "mkdtemp"

\* Where run() goes after building the template.
run_target(r) == IF dry_run[r] THEN "done" ELSE "mkdtemp"

\* TikzRunner.run: build the template, then print it or render it.
run(r) ==
    /\ pc[r] = "run"
    /\ pc' = [pc EXCEPT ![r] = run_target(r)]
    /\ printed' = [printed EXCEPT ![r] = (run_target(r) = "done")]
    /\ UNCHANGED <<cwd, exists, fs, reqConfig, plot_dir, stage, prev_cwd,
                   tool_cwd, latex_ok, conv_ok, latex_log, display_data,
                   raised, outputs, saved, tools, stderr, tplVars>>

\* make_tempdir, entry: tempfile.mkdtemp() creates the scratch directory.
make_tempdir_enter(r) ==
    /\ pc[r] = "mkdtemp"
    /\ exists' = exists \cup {mkdtemp(r)}
    /\ fs' = [fs EXCEPT ![mkdtemp(r)] = {}]
    /\ plot_dir' = [plot_dir EXCEPT ![r] = mkdtemp(r)]
    /\ pc' = [pc EXCEPT ![r] = "write_tex"]
    /\ UNCHANGED <<cwd, reqConfig, stage, prev_cwd, tool_cwd, latex_ok,
                   conv_ok, latex_log, display_data, raised, outputs, saved,
                   printed, tools, stderr, tplVars>>

\* run_latex, first statement: write tikz.tex in the requested encoding.
\* The open or the write may raise (unknown encoding, unencodable text).
write_tex(r) ==
    /\ pc[r] = "write_tex"
    /\ \E ok \in BOOLEAN :
          IF ok
          THEN /\ fs' = [fs EXCEPT ![plot_dir[r]] = @ \cup {"tikz.tex"}]
               /\ stage' = [stage EXCEPT ![r] = "latex"]
               /\ pc' = [pc EXCEPT ![r] = "getcwd"]
               /\ UNCHANGED raised
          ELSE /\ raised' = [raised EXCEPT ![r] = TRUE]
               /\ pc' = [pc EXCEPT ![r] = "rmtree"]
               /\ UNCHANGED <<fs, stage>>
    /\ UNCHANGED <<cwd, exists, reqConfig, plot_dir, prev_cwd, tool_cwd,
                   latex_ok, conv_ok, latex_log, display_data, outputs,
                   saved, printed, tools, stderr, tplVars>>

\* working_directory, entry: prev_cwd = os.getcwd().  getcwd raises when the
\* current directory has been removed; nothing is restored in that case.
working_directory_getcwd(r) ==
    /\ pc[r] = "getcwd"
    /\ IF DirExists(cwd)
       THEN /\ prev_cwd' = [prev_cwd EXCEPT ![r] = cwd]
            /\ pc' = [pc EXCEPT ![r] = "chdir"]
            /\ UNCHANGED <<raised, stage>>
       ELSE /\ raised' = [raised EXCEPT ![r] = TRUE]
            /\ stage' = [stage EXCEPT ![r] = None]
            /\ pc' = [pc EXCEPT ![r] = "rmtree"]
            /\ UNCHANGED prev_cwd
    /\ UNCHANGED <<cwd, exists, fs, reqConfig, plot_dir, tool_cwd, latex_ok,
                   conv_ok, latex_log, display_data, outputs, saved, printed,
                   tools, stderr, tplVars>>

\* working_directory, entry: os.chdir(path).
working_directory_chdir(r) ==
    /\ pc[r] = "chdir"
    /\ cwd' = plot_dir[r]
    /\ pc' = [pc EXCEPT ![r] = "launch"]
    /\ UNCHANGED <<exists, fs, reqConfig, plot_dir, stage, prev_cwd, tool_cwd,
                   latex_ok, conv_ok, latex_log, display_data, raised,
                   outputs, saved, printed, tools, stderr, tplVars>>

\* The message printed when a tool fails.
FailureMessage(t) == CASE t = "pdflatex" -> "LaTeX failed"
                       [] t = "pdf2svg" -> "pdf2svg failed"
                       [] t = "convert" -> "convert failed"

\* Python's True and False as stored values.
PyBool(b) == IF b THEN "True" ELSE "False"

\* The outcome of a tool is recorded by its caller: _convert_tikz_latex
\* returns a boolean, the converters return nothing.
ToolDone(r, ok) ==
    /\ latex_ok' = IF stage[r] = "latex" THEN [latex_ok EXCEPT ![r] = PyBool(ok)]
                   ELSE latex_ok
    /\ conv_ok' = IF stage[r] = "convert" THEN [conv_ok EXCEPT ![r] = PyBool(ok)]
                  ELSE conv_ok
    /\ stderr' = IF ok THEN stderr
                 ELSE [stderr EXCEPT ![r] = @ \cup {FailureMessage(Tool(r))}]
    /\ pc' = [pc EXCEPT ![r] = IF stage[r] = "latex" /\ ~ok THEN "read_log"
                               ELSE "restore"]

\* subprocess.call, launch: the child inherits the working directory of the
\* process; a launch failure is the OSError branch of the caller.
subprocess_launch(r) ==
    /\ pc[r] = "launch"
    /\ tools' = [tools EXCEPT ![r] = @ \cup {Tool(r)}]
    /\ \E started \in BOOLEAN :
          IF started
          THEN /\ tool_cwd' = [tool_cwd EXCEPT ![r] = cwd]
               /\ pc' = [pc EXCEPT ![r] = "running"]
               /\ UNCHANGED <<latex_ok, conv_ok, stderr>>
          ELSE /\ ToolDone(r, FALSE)
               /\ UNCHANGED tool_cwd
    /\ UNCHANGED <<cwd, exists, fs, reqConfig, plot_dir, stage, prev_cwd,
                   latex_log, display_data, raised, outputs, saved, printed,
                   tplVars>>

\* What a tool may leave in its working directory, by outcome.  A tool
\* succeeds only when its input file is there; pdflatex always writes
\* tikz.log and tikz.pdf on success, and tikz.png when the inline
\* conversion of the standalone class worked; a failed pdflatex may leave
\* any of them; a converter writes its target only on success.
ToolWrites(t, ok) ==
    CASE t = "pdflatex" /\ ok -> {{"tikz.log", "tikz.pdf"},
                                  {"tikz.log", "tikz.pdf", "tikz.png"}}
      [] t = "pdflatex" /\ ~ok -> SUBSET {"tikz.log", "tikz.pdf", "tikz.png"}
      [] t = "pdf2svg" -> IF ok THEN {{"tikz.svg"}} ELSE {{}}
      [] t = "convert" -> IF ok THEN {{"tikz.jpg"}} ELSE {{}}

\* subprocess.call, return: the exit code is tested by the caller; an
\* exception other than OSError (an interrupt) leaves the with block.
subprocess_return(r) ==
    /\ pc[r] = "running"
    /\ \E outcome \in {"ok", "nonzero", "interrupt"} :
          /\ outcome = "ok" => ToolInput(Tool(r)) \in FilesIn(tool_cwd[r])
          /\ IF outcome = "interrupt"
             THEN /\ raised' = [raised EXCEPT ![r] = TRUE]
                  /\ pc' = [pc EXCEPT ![r] = "restore"]
                  /\ UNCHANGED <<fs, latex_ok, conv_ok, stderr>>
             ELSE /\ \E w \in ToolWrites(Tool(r), outcome = "ok") :
                        fs' = IF tool_cwd[r] \in exists
                              THEN [fs EXCEPT ![tool_cwd[r]] = @ \cup w]
                              ELSE fs
                  /\ ToolDone(r, outcome = "ok")
                  /\ UNCHANGED raised
    /\ tool_cwd' = [tool_cwd EXCEPT ![r] = None]
    /\ UNCHANGED <<cwd, exists, reqConfig, plot_dir, stage, prev_cwd,
                   latex_log, display_data, outputs, saved, printed, tools,
                   tplVars>>

\* _read_tikz_log: open('tikz.log') relative to the working directory; the
\* text read is empty or not; IOError gives None.
read_tikz_log(r) ==
    /\ pc[r] = "read_log"
    /\ IF "tikz.log" \in FilesIn(cwd)
       THEN /\ \E text \in {"", "log text"} :
                  latex_log' = [latex_log EXCEPT ![r] = text]
            /\ UNCHANGED stderr
       ELSE /\ latex_log' = [latex_log EXCEPT ![r] = None]
            /\ stderr' = [stderr EXCEPT ![r] = @ \cup {"No log file generated."}]
    /\ pc' = [pc EXCEPT ![r] = "restore"]
    /\ UNCHANGED <<cwd, exists, fs, reqConfig, plot_dir, stage, prev_cwd,
                   tool_cwd, latex_ok, conv_ok, display_data, raised, outputs,
                   saved, printed, tools, tplVars>>

\* working_directory without the restore: the process stays where it is.
restore_target_stay(r) == cwd

\* The directory the finally clause of working_directory changes to.
restore_target(r) == prev_cwd[r]

\* working_directory, exit: the finally clause runs os.chdir(prev_cwd) on
\* every way out of the body; chdir raises when prev_cwd is gone.
working_directory_exit(r) ==
    /\ pc[r] = "restore"
    /\ LET ok == DirExists(restore_target(r))
           failed == raised[r] \/ ~ok
       IN /\ cwd' = IF ok THEN restore_target(r) ELSE cwd
          /\ raised' = [raised EXCEPT ![r] = failed]
          /\ pc' = [pc EXCEPT ![r] = IF failed THEN "rmtree"
                                     ELSE IF stage[r] = "latex" THEN "branch"
                                     ELSE "read_img"]
    /\ stage' = [stage EXCEPT ![r] = None]
    /\ prev_cwd' = [prev_cwd EXCEPT ![r] = None]
    /\ UNCHANGED <<exists, fs, reqConfig, plot_dir, tool_cwd, latex_ok,
                   conv_ok, latex_log, display_data, outputs, saved, printed,
                   tools, stderr, tplVars>>

\* Python truthiness of the value returned by run_latex: None and the
\* empty string are both false.
Truthy(log) == log # None /\ log # ""

\* One publish_display_data call.
Output(mime, data, isolated) == [mime |-> mime, data |-> data, isolated |-> isolated]

\* generate_plots with the else dropped: the log is published and the
\* conversion and the image read go on all the same.
generate_plots_branch_fallthrough(r) ==
    /\ pc[r] = "branch"
    /\ outputs' = IF Truthy(latex_log[r])
                  THEN [outputs EXCEPT
                          ![r] = Append(@, Output("text/plain", latex_log[r], FALSE))]
                  ELSE outputs
    /\ IF plot_format[r] \in {"jpg", "jpeg", "svg"}
       THEN /\ stage' = [stage EXCEPT ![r] = "convert"]
            /\ pc' = [pc EXCEPT ![r] = "getcwd"]
       ELSE /\ pc' = [pc EXCEPT ![r] = "read_img"]
            /\ UNCHANGED stage
    /\ UNCHANGED <<cwd, exists, fs, reqConfig, plot_dir, prev_cwd, tool_cwd,
                   latex_ok, conv_ok, latex_log, display_data, raised, saved,
                   printed, tools, stderr, tplVars>>

\* generate_plots after run_latex: "if latex_log:" publishes the log as
\* text/plain; the else branch starts _convert_img_format, which calls a
\* converter for jpg, jpeg and svg and does nothing for other formats.
generate_plots_branch(r) ==
    /\ pc[r] = "branch"
    /\ IF Truthy(latex_log[r])
       THEN /\ outputs' = [outputs EXCEPT
                   ![r] = Append(@, Output("text/plain", latex_log[r], FALSE))]
            /\ pc' = [pc EXCEPT ![r] = "rmtree"]
            /\ UNCHANGED stage
       ELSE /\ IF plot_format[r] \in {"jpg", "jpeg", "svg"}
               THEN /\ stage' = [stage EXCEPT ![r] = "convert"]
                    /\ pc' = [pc EXCEPT ![r] = "getcwd"]
               ELSE /\ pc' = [pc EXCEPT ![r] = "read_img"]
                    /\ UNCHANGED stage
            /\ UNCHANGED outputs
    /\ UNCHANGED <<cwd, exists, fs, reqConfig, plot_dir, prev_cwd, tool_cwd,
                   latex_ok, conv_ok, latex_log, display_data, raised, saved,
                   printed, tools, stderr, tplVars>>

\* _publish_image handing the image to the display as soon as it is read,
\* inside the with block, instead of returning it to generate_plots.
publish_image_direct(r) ==
    /\ pc[r] = "read_img"
    /\ IF image_filename(r) \in FilesIn(plot_dir[r])
       THEN \E wellformed \in BOOLEAN :
               IF plot_format[r] = "svg" /\ ~wellformed
               THEN /\ raised' = [raised EXCEPT ![r] = TRUE]
                    /\ pc' = [pc EXCEPT ![r] = "rmtree"]
                    /\ UNCHANGED <<outputs, stderr>>
               ELSE /\ outputs' = [outputs EXCEPT ![r] =
                          Append(@, Output(get_mime_type(plot_format[r]),
                                           IF plot_format[r] = "svg"
                                           THEN "patched image" ELSE "image",
                                           plot_format[r] = "svg"))]
                    /\ pc' = [pc EXCEPT ![r] = "save"]
                    /\ UNCHANGED <<raised, stderr>>
       ELSE /\ stderr' = [stderr EXCEPT ![r] = @ \cup {"No image generated."}]
            /\ pc' = [pc EXCEPT ![r] = "save"]
            /\ UNCHANGED <<raised, outputs>>
    /\ UNCHANGED <<cwd, exists, fs, reqConfig, plot_dir, stage, prev_cwd,
                   tool_cwd, latex_ok, conv_ok, latex_log, display_data,
                   saved, printed, tools, tplVars>>

\* _publish_image: open "<plot_dir>/tikz.<format>"; IOError reports
\* "No image generated." and gives None; an svg is passed through
\* _fix_gnuplot_svg_size, which raises unless the text parses to exactly
\* one svg element.  generate_plots appends a non-None image to display_data.
publish_image(r) ==
    /\ pc[r] = "read_img"
    /\ IF image_filename(r) \in FilesIn(plot_dir[r])
       THEN \E wellformed \in BOOLEAN :
               IF plot_format[r] = "svg" /\ ~wellformed
               THEN /\ raised' = [raised EXCEPT ![r] = TRUE]
                    /\ pc' = [pc EXCEPT ![r] = "rmtree"]
                    /\ UNCHANGED <<display_data, stderr>>
               ELSE /\ display_data' = [display_data EXCEPT ![r] =
                          Append(@, Output(get_mime_type(plot_format[r]),
                                           IF plot_format[r] = "svg"
                                           THEN "patched image" ELSE "image",
                                           FALSE))]
                    /\ pc' = [pc EXCEPT ![r] = "save"]
                    /\ UNCHANGED <<raised, stderr>>
       ELSE /\ stderr' = [stderr EXCEPT ![r] = @ \cup {"No image generated."}]
            /\ pc' = [pc EXCEPT ![r] = "save"]
            /\ UNCHANGED <<raised, display_data>>
    /\ UNCHANGED <<cwd, exists, fs, reqConfig, plot_dir, stage, prev_cwd,
                   tool_cwd, latex_ok, conv_ok, latex_log, outputs, saved,
                   printed, tools, tplVars>>

\* _save_if_requested: shutil.copy(image_filename, img_save_path) when a
\* save path is set; the copy raises when the source file is missing and
\* may raise when the destination cannot be written.
save_if_requested(r) ==
    /\ pc[r] = "save"
    /\ IF img_save_path[r] # None
       THEN \E writable \in BOOLEAN :
               IF image_filename(r) \in FilesIn(plot_dir[r]) /\ writable
               THEN /\ saved' = [saved EXCEPT ![r] = TRUE]
                    /\ UNCHANGED raised
               ELSE /\ raised' = [raised EXCEPT ![r] = TRUE]
                    /\ UNCHANGED saved
       ELSE UNCHANGED <<saved, raised>>
    /\ pc' = [pc EXCEPT ![r] = "rmtree"]
    /\ UNCHANGED <<cwd, exists, fs, reqConfig, plot_dir, stage, prev_cwd,
                   tool_cwd, latex_ok, conv_ok, latex_log, display_data,
                   outputs, printed, tools, stderr, tplVars>>

\* make_tempdir without try/finally: the directory is removed only when the
\* body returns normally.
make_tempdir_exit_nofinally(r) ==
    /\ pc[r] = "rmtree"
    /\ exists' = IF raised[r] THEN exists ELSE exists \ {plot_dir[r]}
    /\ fs' = IF raised[r] THEN fs ELSE [fs EXCEPT ![plot_dir[r]] = {}]
    /\ pc' = [pc EXCEPT ![r] = IF raised[r] THEN "done" ELSE "publish"]
    /\ UNCHANGED <<cwd, reqConfig, plot_dir, stage, prev_cwd, tool_cwd,
                   latex_ok, conv_ok, latex_log, display_data, raised,
                   outputs, saved, printed, tools, stderr, tplVars>>

\* make_tempdir, exit: the finally clause runs shutil.rmtree(tempdir_path)
\* whether the body returned or raised; an exception then leaves run().
make_tempdir_exit(r) ==
    /\ pc[r] = "rmtree"
    /\ exists' = exists \ {plot_dir[r]}
    /\ fs' = [fs EXCEPT ![plot_dir[r]] = {}]
    /\ pc' = [pc EXCEPT ![r] = IF raised[r] THEN "done" ELSE "publish"]
    /\ UNCHANGED <<cwd, reqConfig, plot_dir, stage, prev_cwd, tool_cwd,
                   latex_ok, conv_ok, latex_log, display_data, raised,
                   outputs, saved, printed, tools, stderr, tplVars>>

\* _run_and_display: the loop over the display_data returned by
\* generate_plots; svg outputs carry the isolated metadata.
run_and_display(r) ==
    /\ pc[r] = "publish"
    /\ outputs' = [outputs EXCEPT ![r] = @ \o
          [i \in 1..Len(display_data[r]) |->
              [display_data[r][i] EXCEPT !.isolated = (plot_format[r] = "svg")]]]
    /\ pc' = [pc EXCEPT ![r] = "done"]
    /\ UNCHANGED <<cwd, exists, fs, reqConfig, plot_dir, stage, prev_cwd,
                   tool_cwd, latex_ok, conv_ok, latex_log, display_data,
                   raised, saved, printed, tools, stderr, tplVars>>

\* run() has returned or raised and the runner is discarded by tikz().
Reset(r) ==
    /\ pc[r] = "done"
    /\ pc' = [pc EXCEPT ![r] = "idle"]
    /\ plot_format' = [plot_format EXCEPT ![r] = "png"]
    /\ img_save_path' = [img_save_path EXCEPT ![r] = None]
    /\ dry_run' = [dry_run EXCEPT ![r] = FALSE]
    /\ plot_dir' = [plot_dir EXCEPT ![r] = None]
    /\ latex_ok' = [latex_ok EXCEPT ![r] = None]
    /\ conv_ok' = [conv_ok EXCEPT ![r] = None]
    /\ latex_log' = [latex_log EXCEPT ![r] = None]
    /\ display_data' = [display_data EXCEPT ![r] = <<>>]
    /\ raised' = [raised EXCEPT ![r] = FALSE]
    /\ outputs' = [outputs EXCEPT ![r] = <<>>]
    /\ saved' = [saved EXCEPT ![r] = FALSE]
    /\ printed' = [printed EXCEPT ![r] = FALSE]
    /\ tools' = [tools EXCEPT ![r] = {}]
    /\ stderr' = [stderr EXCEPT ![r] = {}]
    /\ UNCHANGED <<cwd, exists, fs, stage, prev_cwd, tool_cwd, tplVars>>

\* One step of request r inside run().
Step(r) ==
    \/ run(r)
    \/ make_tempdir_enter(r)
    \/ write_tex(r)
    \/ working_directory_getcwd(r)
    \/ working_directory_chdir(r)
    \/ subprocess_launch(r)
    \/ subprocess_return(r)
    \/ read_tikz_log(r)
    \/ working_directory_exit(r)
    \/ generate_plots_branch(r)
    \/ publish_image(r)
    \/ save_if_requested(r)
    \/ make_tempdir_exit(r)
    \/ run_and_display(r)

\* The %%tikz magic called from one thread: a request starts only when no
\* other request is in progress.
Next ==
    \E r \in Requests :
        \/ Alone(r) /\ Start(r)
        \/ Step(r)
        \/ Reset(r)

Spec == Init /\ [][Next]_vars

\* Two requests issued from two threads of one process: each runs once and
\* their statements interleave.
NextConc ==
    \E r \in Requests :
        \/ StartConc(r)
        \/ Step(r)

SpecConc == Init /\ [][NextConc]_vars

\* compile_tikz_template applied to the preamble of the request.
BuildTemplate ==
    /\ tex = <<>>
    /\ tex' = compile_tikz_template(preamble)
    /\ UNCHANGED <<cwd, exists, fs, pc, reqConfig, plot_dir, stage, prev_cwd,
                   tool_cwd, latex_ok, conv_ok, latex_log, display_data,
                   raised, outputs, saved, printed, tools, stderr, preamble>>

InitTpl ==
    /\ InitPipeline
    /\ preamble \in Strings(MaxPreambleLen)
    /\ tex = <<>>

NextTpl == BuildTemplate

SpecTpl == InitTpl /\ [][NextTpl]_vars

----
\* Positions inside run(), or just after it, that lie outside every
\* working_directory block.
OutsideWith == {"run", "mkdtemp", "write_tex", "getcwd", "branch",
                "read_img", "save", "rmtree", "publish", "done"}

\* The request has been inside a working_directory block at least once.
Entered(r) == stage[r] = "convert" \/ pc[r] \notin {"idle", "run", "mkdtemp",
                                                    "write_tex", "getcwd", "chdir"}

\* The mime types published for request r.
Mimes(r) == {outputs[r][i].mime : i \in 1..Len(outputs[r])}

\* C1: once a non-dry-run request has finished, by returning or by raising,
\* its scratch directory no longer exists.
C1_ScratchRemoved ==
    \A r \in Requests :
        (pc[r] = "done" /\ ~dry_run[r]) =>
            (plot_dir[r] # None /\ plot_dir[r] \notin exists)

\* A request that ended by raising after its scratch directory was made.
C1_Witness ==
    \E r \in Requests :
        pc[r] = "done" /\ raised[r] /\ plot_dir[r] # None /\ plot_dir[r] \notin exists

\* C2: when compilation fails exactly one output is published, of type
\* text/plain, carrying the log text or an empty sentinel, and no image.
C2_FailurePublishesLog ==
    \A r \in Requests :
        (pc[r] = "done" /\ latex_ok[r] = "False") =>
            /\ Len(outputs[r]) = 1
            /\ outputs[r][1].mime = "text/plain"
            /\ outputs[r][1].data \in {"log text", ""}

\* C3: when compilation fails the pipeline stops before conversion: no
\* converter is invoked and the image is neither read nor saved.
C3_FailureShortCircuits ==
    \A r \in Requests :
        latex_ok[r] = "False" =>
            /\ tools[r] \subseteq {"pdflatex"}
            /\ pc[r] \notin {"read_img", "save"}
            /\ "No image generated." \notin stderr[r]
            /\ ~saved[r]

\* C4: for svg, jpg and jpeg, with or without a save path, a converter
\* failure after a successful compilation ends with "No image generated",
\* zero outputs, and run() returning without raising.
C4_ConverterFailureIsQuiet ==
    \A r \in Requests :
        (/\ pc[r] = "done"
         /\ plot_format[r] \in {"svg", "jpg", "jpeg"}
         /\ latex_ok[r] = "True"
         /\ conv_ok[r] = "False") =>
            /\ "No image generated." \in stderr[r]
            /\ outputs[r] = <<>>
            /\ ~raised[r]

\* C5: with one request at a time, every external tool runs with the
\* scratch directory of its request as working directory, and outside the
\* working_directory blocks, in particular after the request, the working
\* directory is the original one.
C5_ScopedWorkingDirectory ==
    /\ (\A r \in Requests : pc[r] = "idle") => cwd = OrigDir
    /\ \A r \in Requests :
        /\ pc[r] = "running" => (cwd = plot_dir[r] /\ tool_cwd[r] = plot_dir[r])
        /\ pc[r] \in {"launch", "read_log"} => cwd = plot_dir[r]
        /\ pc[r] \in OutsideWith => cwd = OrigDir

\* A request that ran pdflatex and a converter and ended by raising.
C5_Witness ==
    \E r \in Requests :
        /\ pc[r] = "done" /\ raised[r]
        /\ {"pdflatex", "pdf2svg"} \subseteq tools[r]
        /\ conv_ok[r] = "False"
        /\ cwd = OrigDir

\* C6: a dry run prints the template and does nothing else: no scratch
\* directory, no tool, no output, no save copy, no directory change.
C6_DryRunOnlyPrints ==
    \A r \in Requests :
        dry_run[r] =>
            /\ pc[r] \in {"run", "done"}
            /\ pc[r] = "done" => printed[r]
            /\ plot_dir[r] = None /\ exists = {}
            /\ tools[r] = {} /\ outputs[r] = <<>> /\ ~saved[r]
            /\ cwd = OrigDir /\ prev_cwd[r] = None

\* A finished dry run.
C6_Witness ==
    \E r \in Requests : dry_run[r] /\ pc[r] = "done" /\ printed[r]

\* The line compile_tikz_template puts before \begin{document}.
Inserted == tex[4]

\* C7 as stated: the inserted text is the preamble less at most one leading
\* and at most one trailing quote character.
C7_OneLayerStripped ==
    tex # <<>> => Inserted = strip_one_layer(preamble)

\* C7 amended: the inserted text is the preamble less all of its leading
\* and all of its trailing quote characters: it neither starts nor ends
\* with a quote, and the preamble is quotes, the inserted text, quotes.
C7_AllQuotesStripped ==
    tex # <<>> =>
        /\ tex[5] = BeginLine
        /\ Inserted # <<>> =>
              Head(Inserted) \notin QuoteChars /\ Inserted[Len(Inserted)] \notin QuoteChars
        /\ \E i \in 0..Len(preamble) :
              /\ i + Len(Inserted) <= Len(preamble)
              /\ Inserted = SubSeq(preamble, i + 1, i + Len(Inserted))
              /\ \A k \in 1..Len(preamble) :
                    (k <= i \/ k > i + Len(Inserted)) => preamble[k] \in QuoteChars

\* A preamble with two layers of quotes around a letter, built.
C7_Witness ==
    /\ tex # <<>>
    /\ Len(preamble) >= 4
    /\ preamble[1] \in QuoteChars /\ preamble[2] \in QuoteChars
    /\ preamble[Len(preamble)] \in QuoteChars
    /\ Inserted = <<"a">>

\* C8 as stated: every hand-off of an output to the display, and the save
\* copy, happens while the scratch directory still exists.
C8_PublishBeforeDelete ==
    [][\A r \in Requests :
          /\ Len(outputs'[r]) > Len(outputs[r]) => plot_dir[r] \in exists
          /\ (saved'[r] /\ ~saved[r]) => plot_dir[r] \in exists]_vars

\* C8 amended: the log text is published and the save copy is made while
\* the scratch directory exists; the image is published after the scratch
\* directory has been deleted, as the last step of run().
C8_ImagePublishedAfterDelete ==
    [][\A r \in Requests :
          /\ Len(outputs'[r]) > Len(outputs[r]) =>
                IF outputs'[r][Len(outputs'[r])].mime = "text/plain"
                THEN plot_dir[r] \in exists
                ELSE /\ plot_dir[r] # None /\ plot_dir[r] \notin exists
                     /\ pc'[r] = "done"
          /\ (saved'[r] /\ ~saved[r]) => plot_dir[r] \in exists
          /\ (plot_dir[r] \in exists /\ plot_dir[r] \notin exists') =>
                pc'[r] \in {"publish", "done"}]_vars

\* An image published and saved by a request whose directory is gone.
C8_Witness ==
    \E r \in Requests :
        /\ pc[r] = "done" /\ saved[r]
        /\ Mimes(r) = {"image/svg+xml"}
        /\ plot_dir[r] \notin exists

\* C9: with two interleaved requests the working-directory discipline can
\* break (the witness), and it breaks only through the other request: a
\* tool or the log read of r sees a directory other than r's scratch
\* directory, or r ends away from the original directory, only after
\* another request has entered a working_directory block, and the
\* directory seen is then the original one or the other's scratch directory.
C9_BrokenOnlyByInterleaving ==
    \A r \in Requests :
        LET others == {o \in Requests \ {r} : Entered(o)}
        IN /\ (pc[r] = "running" /\ tool_cwd[r] # plot_dir[r]) =>
                 (others # {} /\ tool_cwd[r] \in {OrigDir} \cup {plot_dir[o] : o \in others})
           /\ (pc[r] \in {"launch", "read_log"} /\ cwd # plot_dir[r]) =>
                 (others # {} /\ cwd \in {OrigDir} \cup {plot_dir[o] : o \in others})
           /\ (pc[r] = "done" /\ cwd # OrigDir) =>
                 (others # {} /\ cwd \in {plot_dir[o] : o \in Requests})

\* A tool of one request running in a directory that is not its own
\* scratch directory.
C9_Witness ==
    \E r \in Requests :
        pc[r] = "running" /\ tool_cwd[r] # plot_dir[r]

\* C10: a request publishes at most one output, never a log and an image
\* together, and none at all when it ends by raising.
C10_AtMostOneOutput ==
    \A r \in Requests :
        /\ Len(outputs[r]) <= 1
        /\ ~("text/plain" \in Mimes(r) /\ Mimes(r) # {"text/plain"})
        /\ raised[r] => outputs[r] = <<>>

\* An image was read, the save copy raised, and nothing was published.
C10_Witness ==
    \E r \in Requests :
        /\ pc[r] = "done" /\ raised[r]
        /\ display_data[r] # <<>>
        /\ img_save_path[r] # None
        /\ outputs[r] = <<>>

====
